---------------------------- MODULE Spec2Model ----------------------------
(***************************************************************************)
(* The survey wizard of src/src/surveyapp.tsx (component SurveyWizard) as  *)
(* a state machine: the React state (answers, index, showPreview, error),  *)
(* one action per event handler, and the POST /api/submit requests that    *)
(* handleSubmit has sent and that have not been answered yet; and the      *)
(* service of src/unnamed/part_000, its table and its route handlers.      *)
(***************************************************************************)
EXTENDS Integers, Sequences, FiniteSets, Bags, TLC

(***************************************************************************)
(* Bounds of the model.                                                    *)
(***************************************************************************)
\* how many POST /api/submit requests may be awaiting their response at once
MaxInFlight == 2
\* the longest string and the longest option list drawn as a stored value
MaxLen == 2
\* stored numbers are drawn from -MaxNum..MaxNum
MaxNum == 11
\* the longest survey whose progress is computed
MaxTotal == 201
\* how many HTTP requests the service receives
MaxRequests == 3

(***************************************************************************)
(* JavaScript values.  A stored answer is `any` in the source; the model   *)
(* tags each value with its typeof/Array.isArray class.  A string is the   *)
(* sequence of its characters, so that trim() is computed.                 *)
(***************************************************************************)
Str(s) == [t |-> "string", s |-> s, n |-> 0, a |-> <<>>]
Num(n) == [t |-> "number", s |-> <<>>, n |-> n, a |-> <<>>]
Arr(a) == [t |-> "array", s |-> <<>>, n |-> 0, a |-> a]
undefined == [t |-> "undefined", s |-> <<>>, n |-> 0, a |-> <<>>]
jsNull == [t |-> "null", s |-> <<>>, n |-> 0, a |-> <<>>]
\* an object, as the sequence of its <<key, value>> entries
Obj(entries) == [t |-> "object", s |-> <<>>, n |-> 0, a |-> entries]

\* the value of the `error` state when no message is shown (useState(null))
null == "null"

\* characters String.prototype.trim removes
WhiteSpace == {" ", "\t", "\n"}

RECURSIVE TrimStart(_)
TrimStart(s) ==
  IF s # <<>> /\ Head(s) \in WhiteSpace THEN TrimStart(Tail(s)) ELSE s

RECURSIVE TrimEnd(_)
TrimEnd(s) ==
  IF s # <<>> /\ s[Len(s)] \in WhiteSpace
  THEN TrimEnd(SubSeq(s, 1, Len(s) - 1))
  ELSE s

\* v.trim()
trim(s) == TrimEnd(TrimStart(s))

(***************************************************************************)
(* The survey schema.  Question is the type of the source; a survey is the *)
(* `questions` list the wizard walks.  The component reads one list,       *)
(* SURVEY.questions; the model draws the list from Surveys, which holds    *)
(* lists of the same shape, so that every kind occurs required and         *)
(* optional and at the first, a middle and the last position.              *)
(***************************************************************************)
Question(id, type, required, options) ==
  [id |-> id, type |-> type, required |-> required, options |-> options]

SURVEY_ID == "demo_survey"

OptNo == <<"N", "o">>
OptRegularly == <<"R", "e", "g">>
OptWalking == <<"W", "a", "l", "k">>
OptGym == <<"G", "y", "m">>

Surveys ==
  { \* name (required text), age (optional number)
    << Question("q_name", "text", TRUE, <<>>),
       Question("q_age", "number", FALSE, <<>>) >>,
    \* a single required question: activity (required checkbox)
    << Question("q_activity", "checkbox", TRUE, <<OptWalking, OptGym>>) >>,
    \* age (required number), activity (optional checkbox), smoke (required
    \* radio, last)
    << Question("q_age", "number", TRUE, <<>>),
       Question("q_activity", "checkbox", FALSE, <<OptGym>>),
       Question("q_smoke", "radio", TRUE, <<OptNo, OptRegularly>>) >>,
    \* smoke (required radio), notes (optional textarea, last)
    << Question("q_smoke", "radio", TRUE, <<OptNo>>),
       Question("q_notes", "textarea", FALSE, <<>>) >> }

VARIABLES
  questions,    \* SURVEY.questions, fixed for the session
  answers,      \* useState: Record<string, any>
  index,        \* useState(0)
  showPreview,  \* useState(false): FALSE = answering, TRUE = reviewing
  error,        \* useState<string | null>(null)
  inflight,     \* bag of the request bodies sent and not yet answered
  last,         \* the handler that ran last (history, for the properties)
  responses,        \* the service's table `responses`, in insertion order
  sqlite_sequence,  \* the largest id AUTOINCREMENT has handed out
  requests          \* the service's route handlers, in order of arrival

clientVars == <<questions, answers, index, showPreview, error, inflight, last>>
serverVars == <<responses, sqlite_sequence, requests>>
vars == <<questions, answers, index, showPreview, error, inflight, last,
          responses, sqlite_sequence, requests>>

total == Len(questions)
q == questions[index + 1]
ids == {questions[k].id : k \in 1..Len(questions)}

\* the lazy initializer of useState for answers
InitialAnswers(qs) ==
  [qid \in {qs[k].id : k \in 1..Len(qs)} |->
     LET qq == CHOOSE x \in {qs[k] : k \in 1..Len(qs)} : x.id = qid
     IN IF qq.type = "checkbox" THEN Arr(<<>>) ELSE Str(<<>>)]

\* the service after start(): the table exists and no request has arrived
ServerStart ==
  /\ responses = <<>>
  /\ sqlite_sequence = 0
  /\ requests = <<>>

Init ==
  /\ questions \in Surveys
  /\ answers = InitialAnswers(questions)
  /\ index = 0
  /\ showPreview = FALSE
  /\ error = null
  /\ inflight = EmptyBag
  /\ last = "init"
  /\ ServerStart

(***************************************************************************)
(* QuestionRenderer: the values its controls hand to onChange.             *)
(***************************************************************************)
\* what a user may type into a text input or a textarea
TextInputs == {<<>>, <<" ">>, <<"a">>}
\* what a user may type into a number input: "" or a numeral
NumberInputs == {<<>>, <<"0">>, <<"-", "1">>}

Digit(c) ==
  CASE c = "0" -> 0 [] c = "1" -> 1 [] c = "2" -> 2 [] c = "3" -> 3
    [] c = "4" -> 4 [] c = "5" -> 5 [] c = "6" -> 6 [] c = "7" -> 7
    [] c = "8" -> 8 [] c = "9" -> 9

RECURSIVE Digits(_)
Digits(s) ==
  IF s = <<>> THEN 0 ELSE 10 * Digits(SubSeq(s, 1, Len(s) - 1)) + Digit(s[Len(s)])

\* Number(e.target.value) for the numerals a number input holds
Number(s) == IF Head(s) = "-" THEN 0 - Digits(Tail(s)) ELSE Digits(s)

\* String(n) of an integer: its decimal numeral
DigitChar(d) ==
  CASE d = 0 -> "0" [] d = 1 -> "1" [] d = 2 -> "2" [] d = 3 -> "3"
    [] d = 4 -> "4" [] d = 5 -> "5" [] d = 6 -> "6" [] d = 7 -> "7"
    [] d = 8 -> "8" [] d = 9 -> "9"

RECURSIVE Numeral(_)
Numeral(n) ==
  IF n < 0 THEN <<"-">> \o Numeral(0 - n)
  ELSE IF n < 10 THEN <<DigitChar(n)>>
  ELSE Numeral(n \div 10) \o <<DigitChar(n % 10)>>

\* the number input's onChange: e.target.value === '' ? '' : Number(e.target.value)
numberOnChange(s) == IF s = <<>> THEN Str(<<>>) ELSE Num(Number(s))

\* value.includes(opt)
includes(a, opt) == \E k \in 1..Len(a) : a[k] = opt

RECURSIVE without(_, _)
without(a, opt) ==
  IF a = <<>> THEN <<>>
  ELSE IF Head(a) = opt THEN without(Tail(a), opt)
  ELSE <<Head(a)>> \o without(Tail(a), opt)

RECURSIVE dedup(_)
dedup(a) ==
  IF a = <<>> THEN <<>>
  ELSE <<Head(a)>> \o dedup(without(Tail(a), Head(a)))

\* a checkbox onChange on the array itself, without the Set:
\* value.includes(opt) ? value.filter((x) => x !== opt) : [...value, opt]
toggle_noSet(value, opt) ==
  LET arr == IF value.t = "array" THEN value.a ELSE <<>>
  IN IF includes(arr, opt) THEN Arr(without(arr, opt)) ELSE Arr(Append(arr, opt))

\* the checkbox's onChange: new Set(value); has ? delete : add; Array.from(set)
toggle(value, opt) ==
  LET set == dedup(IF value.t = "array" THEN value.a ELSE <<>>)
  IN IF includes(set, opt) THEN Arr(without(set, opt)) ELSE Arr(Append(set, opt))

\* the values QuestionRenderer's control for qi can emit, showing `value`
onChangeValues(qi, value) ==
  CASE qi.type = "text" -> {Str(s) : s \in TextInputs}
    [] qi.type = "number" ->
         {numberOnChange(s) : s \in NumberInputs}
    [] qi.type = "textarea" -> {Str(s) : s \in TextInputs}
    [] qi.type = "radio" -> {Str(qi.options[k]) : k \in 1..Len(qi.options)}
    [] qi.type = "checkbox" ->
         {toggle(value, qi.options[k]) : k \in 1..Len(qi.options)}
    [] OTHER -> {}

(***************************************************************************)
(* SurveyWizard's helpers and handlers.                                    *)
(***************************************************************************)
\* setAnswer without the spread of the previous object: setAnswers(() => ({ [qid]: value }))
setAnswer_noSpread(qid, value) ==
  answers' = [k \in {qid} |-> value]

\* setAnswers((s) => ({ ...s, [qid]: value }))
setAnswer(qid, value) ==
  answers' = [k \in DOMAIN answers \cup {qid} |->
                IF k = qid THEN value ELSE answers[k]]

\* answers[qid]: undefined for a key the object does not hold
valueOf(qid) == IF qid \in DOMAIN answers THEN answers[qid] ELSE undefined

\* a canProceed that tests the value's truthiness: if (!v) return false
canProceed_falsy(qi) ==
  IF ~qi.required THEN TRUE
  ELSE LET v == valueOf(qi.id)
       IN IF v.t \in {"undefined", "null"} \/ v = Str(<<>>) \/ v = Num(0) THEN FALSE
          ELSE IF v.t = "string" THEN trim(v.s) # <<>>
          ELSE IF v.t = "array" THEN Len(v.a) > 0
          ELSE TRUE

\* a canProceed that compares the string untrimmed: v !== ''
canProceed_noTrim(qi) ==
  IF ~qi.required THEN TRUE
  ELSE LET v == valueOf(qi.id)
       IN IF v.t \in {"undefined", "null"} THEN FALSE
          ELSE IF v.t = "string" THEN v.s # <<>>
          ELSE IF v.t = "array" THEN Len(v.a) > 0
          ELSE TRUE

canProceed(qi) ==
  IF ~qi.required THEN TRUE
  ELSE LET v == valueOf(qi.id)
       IN IF v.t \in {"undefined", "null"} THEN FALSE
          ELSE IF v.t = "string" THEN trim(v.s) # <<>>
          ELSE IF v.t = "array" THEN Len(v.a) > 0
          ELSE TRUE

\* questions.indexOf(qq)
indexOf(qq) == (CHOOSE k \in 1..Len(questions) : questions[k] = qq) - 1

\* the positions (0-based) of the required questions that fail canProceed
Failing == {i \in 0..(total - 1) :
              questions[i + 1].required /\ ~canProceed(questions[i + 1])}

\* the validation loop without its return: the last failing question wins
FirstFailing_last == CHOOSE i \in Failing : \A j \in Failing : i >= j

\* the first question the validation loop of handleSubmit stops at
FirstFailing == CHOOSE i \in Failing : \A j \in Failing : i <= j

\* onChange={(v) => setAnswer(q.id, v)} of the rendered question
changeAnswer ==
  /\ ~showPreview
  /\ \E v \in onChangeValues(q, valueOf(q.id)) : setAnswer(q.id, v)
  /\ last' = "setAnswer"
  /\ UNCHANGED <<questions, index, showPreview, error, inflight>>

\* handleNext without the test for the last question
handleNext_alwaysIncrement ==
  /\ ~showPreview
  /\ IF ~canProceed(q)
     THEN /\ error' = "This question is required."
          /\ UNCHANGED <<index, showPreview>>
     ELSE /\ error' = null
          /\ index' = index + 1
          /\ UNCHANGED showPreview
  /\ last' = "next"
  /\ UNCHANGED <<questions, answers, inflight>>

\* handleNext without the canProceed test
handleNext_noValidation ==
  /\ ~showPreview
  /\ error' = null
  /\ IF index < total - 1
     THEN index' = index + 1 /\ UNCHANGED showPreview
     ELSE showPreview' = TRUE /\ UNCHANGED index
  /\ last' = "next"
  /\ UNCHANGED <<questions, answers, inflight>>

\* handleNext without its leading setError(null)
handleNext_noClear ==
  /\ ~showPreview
  /\ IF ~canProceed(q)
     THEN /\ error' = "This question is required."
          /\ UNCHANGED <<index, showPreview>>
     ELSE /\ UNCHANGED error
          /\ IF index < total - 1
             THEN index' = index + 1 /\ UNCHANGED showPreview
             ELSE showPreview' = TRUE /\ UNCHANGED index
  /\ last' = "next"
  /\ UNCHANGED <<questions, answers, inflight>>

handleNext ==
  /\ ~showPreview
  /\ IF ~canProceed(q)
     THEN /\ error' = "This question is required."
          /\ UNCHANGED <<index, showPreview>>
     ELSE /\ error' = null
          /\ IF index < total - 1
             THEN index' = index + 1 /\ UNCHANGED showPreview
             ELSE showPreview' = TRUE /\ UNCHANGED index
  /\ last' = "next"
  /\ UNCHANGED <<questions, answers, inflight>>

\* handlePrev without its test of index
handlePrev_noGuard ==
  /\ error' = null
  /\ index' = index - 1
  /\ last' = "prev"
  /\ UNCHANGED <<questions, answers, showPreview, inflight>>

handlePrev ==
  /\ error' = null
  /\ index' = IF index > 0 THEN index - 1 ELSE index
  /\ last' = "prev"
  /\ UNCHANGED <<questions, answers, showPreview, inflight>>

\* the Previous button: rendered while answering, disabled at index 0
clickPrev ==
  /\ ~showPreview
  /\ index # 0
  /\ handlePrev

\* a Preview button that validates the current question as Next does
requestReview_validated ==
  /\ ~showPreview
  /\ canProceed(q)
  /\ showPreview' = TRUE
  /\ last' = "requestReview"
  /\ UNCHANGED <<questions, answers, index, error, inflight>>

\* the Preview button: setShowPreview(true)
requestReview ==
  /\ ~showPreview
  /\ showPreview' = TRUE
  /\ last' = "requestReview"
  /\ UNCHANGED <<questions, answers, index, error, inflight>>

\* goToQuestion(i), the onEdit of the PreviewItem of question i
goToQuestionAt(i) ==
  /\ showPreview
  /\ showPreview' = FALSE
  /\ index' = i
  /\ last' = "jumpTo"
  /\ UNCHANGED <<questions, answers, error, inflight>>

\* a PreviewItem's Edit link: goToQuestion(i)
goToQuestion == \E i \in 0..(total - 1) : goToQuestionAt(i)

\* a footer button that sets the index and leaves the review open
footerJumpTo_keepPhase(i) ==
  /\ index' = i
  /\ last' = "jumpTo"
  /\ UNCHANGED <<questions, answers, showPreview, error, inflight>>

\* the footer button of question i: setIndex(i); setShowPreview(false)
footerJumpTo(i) ==
  /\ index' = i
  /\ showPreview' = FALSE
  /\ last' = "jumpTo"
  /\ UNCHANGED <<questions, answers, error, inflight>>

\* the footer's quick-jump buttons, rendered in both phases
footerJump == \E i \in 0..(total - 1) : footerJumpTo(i)

\* a "Back to questions" button that also aborts the requests in flight
backToQuestions_abort ==
  /\ showPreview
  /\ showPreview' = FALSE
  /\ inflight' = EmptyBag
  /\ last' = "backToQuestions"
  /\ UNCHANGED <<questions, answers, index, error>>

\* the "Back to questions" button: setShowPreview(false)
backToQuestions ==
  /\ showPreview
  /\ showPreview' = FALSE
  /\ last' = "backToQuestions"
  /\ UNCHANGED <<questions, answers, index, error, inflight>>

Max(a, b) == IF a >= b THEN a ELSE b

\* the "Edit last" button
editLast ==
  /\ showPreview
  /\ index' = Max(0, total - 1)
  /\ showPreview' = FALSE
  /\ last' = "editLast"
  /\ UNCHANGED <<questions, answers, error, inflight>>

\* a request body that leaves out the questions still at their empty default
requestBody_answeredOnly ==
  [surveyId |-> SURVEY_ID,
   answers |-> [k \in {x \in DOMAIN answers :
                         answers[x] \notin {Str(<<>>), Arr(<<>>)}} |-> answers[k]]]

\* JSON.stringify({ surveyId: SURVEY.id, answers }) with the answers this render holds
requestBody == [surveyId |-> SURVEY_ID, answers |-> answers]

\* handleSubmit up to its await: the validation loop, then the fetch
handleSubmit ==
  /\ showPreview
  /\ IF Failing # {}
     THEN /\ showPreview' = FALSE
          /\ index' = indexOf(questions[FirstFailing + 1])
          /\ error' = "Please complete required fields."
          /\ UNCHANGED inflight
          /\ last' = "submitRejected"
     ELSE /\ BagCardinality(inflight) < MaxInFlight
          /\ error' = null
          /\ inflight' = inflight (+) SetToBag({requestBody})
          /\ UNCHANGED <<index, showPreview>>
          /\ last' = "submitSent"
  /\ UNCHANGED <<questions, answers>>

(***************************************************************************)
(* The gateway's answer to one request in flight, and the rest of          *)
(* handleSubmit, which runs when the awaited fetch settles.                *)
(***************************************************************************)
\* messages of the errors fetch() or resp.json() reject with
ThrownMessages == {"Failed to fetch"}
\* the error field of a non-ok response's body ("" stands for none)
DataErrors == {"", "server error"}

Outcomes ==
  {[kind |-> "ok", msg |-> ""]}
    \cup {[kind |-> "reject", msg |-> m] : m \in ThrownMessages}
    \cup {[kind |-> "notOk", msg |-> m] : m \in DataErrors}

Failures == {o \in Outcomes : o.kind # "ok"}

\* err.message of what the try block throws for a failed outcome
errMessage(o) ==
  IF o.kind = "notOk"
  THEN (IF o.msg # "" THEN o.msg ELSE "Submit failed")
  ELSE o.msg

\* a catch block that shows a fixed message: setError('Submission failed')
caughtMessage_generic(o) == "Submission failed"

\* the catch block's argument to setError
caughtMessage(o) ==
  IF errMessage(o) # "" THEN errMessage(o) ELSE "Submission failed"

\* handleSubmit with the reset its comment mentions: setAnswers(initialState) on success
gatewayRespondsWith_reset(o) ==
  /\ \E r \in BagToSet(inflight) : inflight' = inflight (-) SetToBag({r})
  /\ IF o.kind = "ok"
     THEN /\ last' = "gatewaySuccess"
          /\ answers' = InitialAnswers(questions)
          /\ UNCHANGED error
     ELSE /\ last' = "gatewayFailure"
          /\ error' = caughtMessage(o)
          /\ UNCHANGED answers
  /\ UNCHANGED <<questions, index, showPreview>>

\* a handleSubmit that clears the message once more after a success
gatewayRespondsWith_clearOnSuccess(o) ==
  /\ \E r \in BagToSet(inflight) : inflight' = inflight (-) SetToBag({r})
  /\ IF o.kind = "ok"
     THEN /\ last' = "gatewaySuccess"
          /\ error' = null
     ELSE /\ last' = "gatewayFailure"
          /\ error' = caughtMessage(o)
  /\ UNCHANGED <<questions, answers, index, showPreview>>

\* one request in flight is answered with outcome o, and handleSubmit resumes
\* after its await: console.log and alert on success, the catch block otherwise
gatewayRespondsWith(o) ==
  /\ \E r \in BagToSet(inflight) : inflight' = inflight (-) SetToBag({r})
  /\ IF o.kind = "ok"
     THEN /\ last' = "gatewaySuccess"
          /\ UNCHANGED error
     ELSE /\ last' = "gatewayFailure"
          /\ error' = caughtMessage(o)
  /\ UNCHANGED <<questions, answers, index, showPreview>>

gatewayResponds == \E o \in Outcomes : gatewayRespondsWith(o)

\* the wizard's events; the service is another process and is left alone
Next ==
  \/ changeAnswer /\ UNCHANGED serverVars
  \/ handleNext /\ UNCHANGED serverVars
  \/ clickPrev /\ UNCHANGED serverVars
  \/ requestReview /\ UNCHANGED serverVars
  \/ goToQuestion /\ UNCHANGED serverVars
  \/ footerJump /\ UNCHANGED serverVars
  \/ backToQuestions /\ UNCHANGED serverVars
  \/ editLast /\ UNCHANGED serverVars
  \/ handleSubmit /\ UNCHANGED serverVars
  \/ gatewayResponds /\ UNCHANGED serverVars

Spec == Init /\ [][Next]_vars

(***************************************************************************)
(* canProceed and the controls of QuestionRenderer on stored values of     *)
(* every shape: a wizard of one question of any kind, required or not,     *)
(* whose answer store holds any value, or no entry, for it.                *)
(***************************************************************************)
SeqsUpTo(S, n) == UNION {[1..k -> S] : k \in 0..n}

\* characters of the strings drawn
Chars == {" ", "\t", "a"}

QTypes == {"text", "number", "radio", "textarea", "checkbox"}

optionsOf(type) ==
  CASE type = "radio" -> <<OptNo, OptRegularly>>
    [] type = "checkbox" -> <<OptWalking, OptGym>>
    [] OTHER -> <<>>

StoredValues ==
  {undefined, jsNull}
    \cup {Str(s) : s \in SeqsUpTo(Chars, MaxLen)}
    \cup {Str(OptNo), Str(OptRegularly)}
    \cup {Num(n) : n \in (0 - MaxNum)..MaxNum}
    \cup {Arr(a) : a \in SeqsUpTo({OptWalking, OptGym}, MaxLen)}

ValuesInit ==
  /\ questions \in {<<Question("q", type, required, optionsOf(type))>> :
                       type \in QTypes, required \in BOOLEAN}
  /\ answers \in {[k \in {} |-> undefined]}
                  \cup {[k \in {"q"} |-> v] : v \in StoredValues \ {undefined}}
  /\ index = 0
  /\ showPreview = FALSE
  /\ error = null
  /\ inflight = EmptyBag
  /\ last = "init"
  /\ ServerStart

ValuesNext ==
  \/ changeAnswer /\ UNCHANGED serverVars
  \/ handleNext /\ UNCHANGED serverVars

SpecValues == ValuesInit /\ [][ValuesNext]_vars

(***************************************************************************)
(* The progress shown in the header, on surveys of 1..MaxTotal questions   *)
(* walked with Next and Previous.                                          *)
(*                                                                         *)
(* Math.round rounds a half up.  Its argument is a double: where the exact *)
(* quotient ((index + 1) / total) * 100 ends in .5 the double computed may *)
(* lie below the half (23/40*100 gives 57.49999999999999), so there        *)
(* calcProgress is the set of both neighbours; elsewhere it is the one     *)
(* nearest integer.                                                        *)
(***************************************************************************)
\* the set of the values Math.round((num / total) * 100) may have
roundPercent(num, den) ==
  LET floor == (100 * num) \div den
      rest2 == 2 * ((100 * num) % den)
  IN IF rest2 = den THEN {floor, floor + 1}
     ELSE IF rest2 > den THEN {floor + 1}
     ELSE {floor}

\* a progress computed from the index itself: Math.round((index / total) * 100)
calcProgress_zeroBased(i, n) == roundPercent(i, n)

\* calcProgress(index, total)
calcProgress(i, n) == roundPercent(i + 1, n)

\* const progress = calcProgress(index, total)
progress == calcProgress(index, total)

\* a survey of n optional text questions
LongSurvey(n) == [k \in 1..n |-> Question(ToString(k), "text", FALSE, <<>>)]

ProgressInit ==
  /\ questions \in {LongSurvey(n) : n \in 1..MaxTotal}
  /\ answers = InitialAnswers(questions)
  /\ index = 0
  /\ showPreview = FALSE
  /\ error = null
  /\ inflight = EmptyBag
  /\ last = "init"
  /\ ServerStart

ProgressNext ==
  \/ handleNext /\ UNCHANGED serverVars
  \/ clickPrev /\ UNCHANGED serverVars

SpecProgress == ProgressInit /\ [][ProgressNext]_vars

(***************************************************************************)
(* The service of src/unnamed/part_000: an express application over one    *)
(* sqlite table.  A route handler runs up to its next await in one step;   *)
(* the steps of different requests interleave.                             *)
(***************************************************************************)
\* the schema both programs carry (the options are plain strings here)
SURVEY ==
  [id |-> SURVEY_ID,
   questions |->
     << Question("q_name", "text", TRUE, <<>>),
        Question("q_age", "number", TRUE, <<>>),
        Question("q_activity", "checkbox", FALSE,
                 <<"Walking", "Running", "Swimming", "Cycling", "Gym">>),
        Question("q_smoke", "radio", TRUE, <<"No", "Occasionally", "Regularly">>),
        Question("q_notes", "textarea", FALSE, <<>>) >>]

\* the characters of SURVEY.id, as a request carries them
SurveyIdText == <<"d", "e", "m", "o", "_", "s", "u", "r", "v", "e", "y">>

\* !v of JavaScript
falsy(v) == v \in {undefined, jsNull, Str(<<>>), Num(0)}

\* parts joined by commas
RECURSIVE joinComma(_)
joinComma(parts) ==
  IF parts = <<>> THEN <<>>
  ELSE IF Len(parts) = 1 THEN parts[1]
  ELSE parts[1] \o <<",">> \o joinComma(Tail(parts))

\* JSON.stringify of a JSON value
RECURSIVE stringify(_)
stringify(v) ==
  CASE v.t = "null" -> <<"n", "u", "l", "l">>
    [] v.t = "string" -> <<"\"">> \o v.s \o <<"\"">>
    [] v.t = "number" -> Numeral(v.n)
    [] v.t = "array" ->
         <<"[">> \o joinComma([i \in 1..Len(v.a) |-> stringify(v.a[i])]) \o <<"]">>
    [] v.t = "object" ->
         <<"{">>
         \o joinComma([i \in 1..Len(v.a) |->
                         <<"\"">> \o v.a[i][1] \o <<"\"", ":">> \o stringify(v.a[i][2])])
         \o <<"}">>

\* the answers a request body may carry; undefined is the absent key
JsonAnswers ==
  { undefined, jsNull,
    Obj(<< <<(<<"q">>), Str(<<"a">>)>>, <<(<<"r">>), Arr(<<Num(1)>>)>> >>) }

\* JSON.parse of a text that JSON.stringify wrote
parse(text) == CHOOSE v \in JsonAnswers \ {undefined} : stringify(v) = text

\* the surveyId a request body may carry; undefined is the absent key
SurveyIds == {undefined, Str(<<>>), Str(SurveyIdText)}

Bodies == [surveyId : SurveyIds, answers : JsonAnswers]

NoBody == [surveyId |-> undefined, answers |-> undefined]

\* what res.json sent: kind names the shape of the body, {error}, {ok, data},
\* the array of rows or SURVEY
NoReply == [status |-> 0, kind |-> "none", error |-> "", data |-> <<>>]
replyError(status, message) ==
  [status |-> status, kind |-> "error", error |-> message, data |-> <<>>]
replySaved(rows) == [status |-> 200, kind |-> "saved", error |-> "", data |-> rows]
replyRows(rows) == [status |-> 200, kind |-> "rows", error |-> "", data |-> rows]
replySurvey == [status |-> 200, kind |-> "survey", error |-> "", data |-> <<>>]

\* a handler: its route, the body it read, where it stands (at "insert" it
\* awaits db.run, at "select" db.get, at "done" it has replied), result.lastID
\* and the reply
Handler(route, body, at, lastID, reply) ==
  [route |-> route, body |-> body, at |-> at, lastID |-> lastID, reply |-> reply]

rowIds == {responses[k].id : k \in 1..Len(responses)}

\* CURRENT_TIMESTAMP, in seconds: the clock never runs backwards, and two
\* inserts may fall into the same second
Timestamps ==
  LET latest == IF responses = <<>> THEN 0
                ELSE responses[Len(responses)].created_at
  IN {latest, latest + 1}

\* the row a handler reads back: answers parsed when the text is truthy
rowParsed(r) ==
  [r EXCEPT !.answers = IF r.answers # <<>> THEN parse(r.answers) ELSE jsNull]

\* line 57: the body is refused
invalidBody_answersOnly(b) == b.answers = undefined
invalidBody(b) == falsy(b.surveyId) \/ b.answers = undefined

\* POST /api/submit arrives with body b and runs to the reply or to db.run
postSubmitWith(b) ==
  /\ Len(requests) < MaxRequests
  /\ requests' =
       Append(requests,
              IF invalidBody(b)
              THEN Handler("submit", b, "done", 0,
                           replyError(400, "surveyId and answers are required"))
              ELSE Handler("submit", b, "insert", 0, NoReply))
  /\ UNCHANGED <<responses, sqlite_sequence>>

postSubmit == \E b \in Bodies : postSubmitWith(b)

\* INSERT INTO responses (survey_id, answers): AUTOINCREMENT hands out an id
\* larger than every id it has handed out
insertRow_upsert(surveyId, text, at) ==
  IF \E k \in 1..Len(responses) : responses[k].survey_id = surveyId
  THEN LET k == CHOOSE j \in 1..Len(responses) : responses[j].survey_id = surveyId
       IN [table |-> [responses EXCEPT ![k].answers = text], lastID |-> responses[k].id]
  ELSE [table |-> Append(responses,
                         [id |-> sqlite_sequence + 1, survey_id |-> surveyId,
                          answers |-> text, created_at |-> at]),
        lastID |-> sqlite_sequence + 1]
insertRow(surveyId, text, at) ==
  [table |-> Append(responses,
                    [id |-> sqlite_sequence + 1, survey_id |-> surveyId,
                     answers |-> text, created_at |-> at]),
   lastID |-> sqlite_sequence + 1]

\* db.run of request c resolves: the row is in the table
dbRunResolves(c) ==
  /\ c \in 1..Len(requests)
  /\ requests[c].at = "insert"
  /\ \E at \in Timestamps :
       LET done == insertRow(requests[c].body.surveyId,
                             stringify(requests[c].body.answers), at)
       IN /\ responses' = done.table
          /\ sqlite_sequence' = IF done.lastID > sqlite_sequence THEN done.lastID
                                ELSE sqlite_sequence
          /\ requests' = [requests EXCEPT ![c].at = "select", ![c].lastID = done.lastID]

\* db.run of request c rejects: nothing is written, the catch replies 500
dbRunRejects(c) ==
  /\ c \in 1..Len(requests)
  /\ requests[c].at = "insert"
  /\ requests' = [requests EXCEPT ![c].at = "done",
                                  ![c].reply = replyError(500, "server error")]
  /\ UNCHANGED <<responses, sqlite_sequence>>

\* db.get of request c resolves with the row of result.lastID; the handler
\* replies { ok: true, data: row }
dbGetResolves(c) ==
  /\ c \in 1..Len(requests)
  /\ requests[c].at = "select"
  /\ LET found == SelectSeq(responses, LAMBDA r : r.id = requests[c].lastID)
     IN requests' = [requests EXCEPT
                       ![c].at = "done",
                       ![c].reply = replySaved([k \in 1..Len(found) |-> rowParsed(found[k])])]
  /\ UNCHANGED <<responses, sqlite_sequence>>

\* db.get of request c rejects: the row stays, the catch replies 500
dbGetRejects(c) ==
  /\ c \in 1..Len(requests)
  /\ requests[c].at = "select"
  /\ requests' = [requests EXCEPT ![c].at = "done",
                                  ![c].reply = replyError(500, "server error")]
  /\ UNCHANGED <<responses, sqlite_sequence>>

dbRun == \E c \in 1..MaxRequests : dbRunResolves(c) \/ dbRunRejects(c)
dbGet == \E c \in 1..MaxRequests : dbGetResolves(c) \/ dbGetRejects(c)

\* rows in an order ORDER BY created_at DESC may return them in
newestFirst(rows) ==
  \A i, j \in 1..Len(rows) : i < j => rows[i].created_at >= rows[j].created_at

\* GET /api/responses: every row, newest first, answers parsed; or the query
\* rejects and the catch replies 500
getResponses ==
  /\ Len(requests) < MaxRequests
  /\ \/ \E p \in Permutations(1..Len(responses)) :
          LET rows == [k \in 1..Len(responses) |-> responses[p[k]]]
          IN /\ newestFirst(rows)
             /\ requests' =
                  Append(requests,
                         Handler("responses", NoBody, "done", 0,
                                 replyRows([k \in 1..Len(rows) |-> rowParsed(rows[k])])))
     \/ requests' = Append(requests,
                           Handler("responses", NoBody, "done", 0,
                                   replyError(500, "server error")))
  /\ UNCHANGED <<responses, sqlite_sequence>>

\* GET /api/survey: res.json(SURVEY)
getSurvey ==
  /\ Len(requests) < MaxRequests
  /\ requests' = Append(requests, Handler("survey", NoBody, "done", 0, replySurvey))
  /\ UNCHANGED <<responses, sqlite_sequence>>

\* the wizard of the shipped schema sits at its first question meanwhile
ServerInit ==
  /\ questions = SURVEY.questions
  /\ answers = InitialAnswers(questions)
  /\ index = 0
  /\ showPreview = FALSE
  /\ error = null
  /\ inflight = EmptyBag
  /\ last = "init"
  /\ ServerStart

ServerNext ==
  \/ postSubmit /\ UNCHANGED clientVars
  \/ dbRun /\ UNCHANGED clientVars
  \/ dbGet /\ UNCHANGED clientVars
  \/ getResponses /\ UNCHANGED clientVars
  \/ getSurvey /\ UNCHANGED clientVars

SpecServer == ServerInit /\ [][ServerNext]_vars

(***************************************************************************)
(* The wizard with a gateway that answers: every fetch settles, each on    *)
(* its own, whatever the user does meanwhile.  Requests with equal bodies  *)
(* are interchangeable; the one answered is taken to be the oldest.        *)
(***************************************************************************)
\* the request with body r is answered and handleSubmit resumes
settles(r) ==
  /\ inflight' = inflight (-) SetToBag({r})
  /\ gatewayResponds
  /\ UNCHANGED serverVars

\* the survey of a required radio question and an optional textarea
FairInit == Init /\ Len(questions) = 2 /\ questions[1].type = "radio"

\* the bodies handleSubmit can send for that survey
SentBodies ==
  {[surveyId |-> SURVEY_ID,
    answers |-> [k \in {"q_smoke", "q_notes"} |->
                   IF k = "q_smoke" THEN Str(OptNo) ELSE Str(s)]] : s \in TextInputs}

SpecFair == FairInit /\ [][Next]_vars /\ \A r \in SentBodies : WF_vars(settles(r))

(***************************************************************************)
(* Properties.                                                             *)
(***************************************************************************)
\* question i (0-based) is required and its stored answer fails canProceed
Unanswered(i) == questions[i + 1].required /\ ~canProceed(questions[i + 1])

\* C1: in every reachable state currentIndex is an integer with
\* 0 <= currentIndex < questionCount.
C1_IndexInRange == index \in Int /\ 0 <= index /\ index < total

\* next() has moved the wizard onto the last of three questions
C1_Witness == last = "next" /\ total = 3 /\ index = total - 1 /\ ~showPreview

\* C2: submit() in a state where a required question fails canProceed sends
\* nothing to the gateway and leaves phase = Answering, currentIndex = the
\* position of the first failing required question, and a non-empty error.
C2_SubmitRejected ==
  [][(handleSubmit /\ \E i \in 0..(total - 1) : Unanswered(i)) =>
       /\ inflight' = inflight
       /\ showPreview' = FALSE
       /\ Unanswered(index')
       /\ \A j \in 0..(index' - 1) : ~Unanswered(j)
       /\ error' \notin {null, ""}]_vars

\* submit() was refused while two required questions were failing, and the
\* wizard is back on the first of them
C2_Witness ==
  /\ last = "submitRejected"
  /\ Cardinality({i \in 0..(total - 1) : Unanswered(i)}) = 2
  /\ Unanswered(index)
  /\ ~showPreview

\* one entry per question id
FullStore(a) == DOMAIN a = ids

\* C3: each submit() in which every required question passes sends exactly
\* one request, holding the survey id and the whole answer store as it is
\* at the call (one entry per question id); no other handler sends or
\* alters a request, so edits made while it is in flight do not change it.
C3_SubmitSendsSnapshot ==
  /\ [][(handleSubmit /\ \A i \in 0..(total - 1) : ~Unanswered(i)) =>
          /\ FullStore(answers)
          /\ inflight' =
               inflight (+) SetToBag({[surveyId |-> SURVEY_ID, answers |-> answers]})]_vars
  /\ [][changeAnswer \/ handleNext \/ handlePrev \/ requestReview \/ goToQuestion
          \/ footerJump \/ backToQuestions \/ editLast
          => inflight' = inflight]_vars
  /\ [][gatewayResponds =>
          \E r \in BagToSet(inflight) : inflight' = inflight (-) SetToBag({r})]_vars

\* a second submit() was sent while the first is in flight, after an edit:
\* the two requests in flight hold different answers, one of them with an
\* optional question at its empty default
C3_Witness ==
  /\ last = "submitSent"
  /\ BagCardinality(inflight) = 2
  /\ Cardinality(BagToSet(inflight)) = 2
  /\ \E r \in BagToSet(inflight) : \E k \in 1..total :
        ~questions[k].required /\ r.answers[questions[k].id] \in {Str(<<>>), Arr(<<>>)}

\* C4, as claimed: when the gateway reports failure, validationError is set
\* to that failure's message and the wizard is in phase Reviewing afterwards,
\* whatever the user did while the call was in flight.
C4_FailureEndsInReviewing ==
  [][\A o \in Failures :
       gatewayRespondsWith(o) => error' = errMessage(o) /\ showPreview' = TRUE]_vars

\* C4, amended: when the gateway reports failure, validationError is set to
\* that failure's message and the phase is left as it was when the answer
\* arrived: Reviewing if the user stayed in the review, Answering if they
\* navigated away while the call was in flight.
C4_FailureKeepsPhase ==
  [][\A o \in Failures :
       gatewayRespondsWith(o) =>
         error' = errMessage(o) /\ showPreview' = showPreview]_vars

\* a failure arrived after the user had left the review: its message is
\* shown in phase Answering
C4_Witness ==
  /\ last = "gatewayFailure"
  /\ ~showPreview
  /\ error \in {errMessage(o) : o \in Failures}

\* C5: every navigation operation (next whose validation passes, prev,
\* jumpTo by a preview Edit link or the footer strip, requestReview,
\* back-to-questions) leaves validationError empty.
C5_NavigationClearsError ==
  [][(\/ handleNext /\ canProceed(q)
      \/ handlePrev
      \/ goToQuestion
      \/ footerJump
      \/ requestReview
      \/ backToQuestions) => error' = null]_vars

\* C6: next() on a question that fails canProceed sets validationError to
\* the fixed required-question message and leaves currentIndex, phase and
\* the answer store unchanged, at every index including the last.
C6_NextRefused ==
  [][(handleNext /\ ~canProceed(q)) =>
       /\ error' = "This question is required."
       /\ index' = index
       /\ showPreview' = showPreview
       /\ answers' = answers]_vars

\* next() was refused on the last question of a survey of several
C6_Witness ==
  /\ last = "next"
  /\ error = "This question is required."
  /\ total > 1 /\ index = total - 1
  /\ ~showPreview /\ ~canProceed(q)

\* C7: next() on a question that passes canProceed increments currentIndex
\* by one and stays in Answering below the last question; on the last
\* question it changes phase from Answering to Reviewing and keeps
\* currentIndex; validationError is empty afterwards in both cases.
C7_NextAdvances ==
  [][(handleNext /\ canProceed(q)) =>
       /\ showPreview = FALSE
       /\ error' = null
       /\ IF index < total - 1
          THEN index' = index + 1 /\ showPreview' = FALSE
          ELSE index' = index /\ showPreview' = TRUE]_vars

\* next() on the last of three questions, a required one, opened the review
C7_Witness ==
  /\ last = "next"
  /\ showPreview /\ error = null
  /\ total = 3 /\ index = total - 1
  /\ q.required /\ canProceed(q)

\* the empty default of a question's kind
EmptyDefault(qi) == IF qi.type = "checkbox" THEN Arr(<<>>) ELSE Str(<<>>)

\* C8: the answer store starts with every question id at the empty default
\* of its kind, holds exactly the question ids as keys in every state, and
\* is changed by setAnswer alone: no other handler changes an entry.
C8_OnlySetAnswerWrites ==
  /\ \A k \in 1..total : answers[questions[k].id] = EmptyDefault(questions[k])
  /\ [](DOMAIN answers = ids)
  /\ [][answers' # answers => changeAnswer]_vars

\* a submission succeeded and the answers given are still stored
C8_Witness ==
  /\ last = "gatewaySuccess"
  /\ \A k \in 1..total : answers[questions[k].id] # EmptyDefault(questions[k])

\* C9: setAnswer(questionId, value) overwrites the entry of questionId
\* alone: every other entry, currentIndex, phase and validationError stay
\* as they were (no validation runs).
C9_SetAnswerFrame ==
  [][changeAnswer =>
       /\ DOMAIN answers' = DOMAIN answers
       /\ \A k \in DOMAIN answers : k # q.id => answers'[k] = answers[k]
       /\ index' = index
       /\ showPreview' = showPreview
       /\ error' = error]_vars

\* an answer became valid by setAnswer while the message of an earlier
\* refusal is still shown, beside another question's stored answer
C9_Witness ==
  /\ last = "setAnswer"
  /\ error = "This question is required."
  /\ q.required /\ canProceed(q)
  /\ \E k \in ids : k # q.id /\ answers[k] \notin {Str(<<>>), Arr(<<>>)}

\* C10: requestReview() is available in every Answering state, whatever
\* canProceed says, and sets phase = Reviewing; currentIndex and the answer
\* store are unchanged by it.
C10_ReviewUnconditional ==
  /\ [](~showPreview => ENABLED requestReview)
  /\ [][requestReview =>
          showPreview' = TRUE /\ index' = index /\ answers' = answers]_vars

\* the review was opened by requestReview() with a required question, the
\* current one, unanswered
C10_Witness ==
  /\ last = "requestReview"
  /\ showPreview
  /\ Unanswered(index)

\* C11: jumpTo(i) is available for every in-range i in both phases (the
\* footer strip) and in the review (the Edit links), whatever canProceed
\* says of the current question; it results in phase = Answering and
\* currentIndex = i; and jumpTo(i) in a state where the wizard already is
\* answering question i changes neither phase, currentIndex,
\* validationError nor the answer store.
C11_JumpTo ==
  /\ [](\A i \in 0..(total - 1) :
          /\ ENABLED footerJumpTo(i)
          /\ showPreview => ENABLED goToQuestionAt(i))
  /\ [][\A i \in 0..(total - 1) :
          (goToQuestionAt(i) \/ footerJumpTo(i)) =>
             showPreview' = FALSE /\ index' = i]_vars
  /\ [][\A i \in 0..(total - 1) :
          (~showPreview /\ index = i /\ footerJumpTo(i)) =>
             UNCHANGED <<showPreview, index, error, answers, inflight>>]_vars

\* a jump has left a required question unanswered behind, with the message
\* of its refusal, and landed on a later question
C11_Witness ==
  /\ last = "jumpTo"
  /\ ~showPreview
  /\ index > 0
  /\ Unanswered(0)
  /\ error = "This question is required."

\* C12: prev() clears validationError, decrements currentIndex by exactly
\* one when currentIndex > 0, leaves it at 0 when it is 0, and changes
\* neither phase nor the answer store; it does not validate the current
\* question.  (The Previous button is disabled at index 0: that case is
\* stated of the handler.)
C12_Prev ==
  /\ [][handlePrev =>
          /\ error' = null
          /\ index' = (IF index > 0 THEN index - 1 ELSE 0)
          /\ showPreview' = showPreview
          /\ answers' = answers]_vars
  /\ [](index = 0 =>
          /\ ENABLED (handlePrev /\ index' = 0 /\ error' = null
                        /\ showPreview' = showPreview /\ answers' = answers)
          /\ ~ENABLED (handlePrev /\ index' # 0))
  /\ [](~showPreview /\ index > 0 => ENABLED clickPrev)

\* prev() has left a required question that fails canProceed, and no
\* message is shown
C12_Witness ==
  /\ last = "prev"
  /\ error = null
  /\ ~showPreview
  /\ Unanswered(index + 1)

\* C13: the gateway's report of success changes nothing of the wizard:
\* phase, currentIndex, the answer store and validationError are as they
\* were before it; the answers are kept.
C13_SuccessChangesNothing ==
  [][gatewayRespondsWith([kind |-> "ok", msg |-> ""]) =>
       UNCHANGED <<showPreview, index, answers, error>>]_vars

\* a success arrived in the review while a message set after the submit is
\* still stored, and the answers are still there
C13_Witness ==
  /\ last = "gatewaySuccess"
  /\ showPreview
  /\ error # null
  /\ answers # InitialAnswers(questions)

\* the stored value of the one question of the wizard
stored == valueOf(q.id)

\* C14: for a required number question canProceed is false when the stored
\* value is the empty-string sentinel or absent and true for every stored
\* number, 0 and the negative ones included; the number input hands the
\* sentinel to onChange for an empty input and the numeric value for a
\* numeral.
C14_RequiredNumber ==
  /\ (q.type = "number" /\ q.required) =>
        /\ stored \in {undefined, Str(<<>>)} => ~canProceed(q)
        /\ stored.t = "number" => canProceed(q)
        /\ (last = "next" /\ stored.t = "number") => error = null
        /\ (last = "next" /\ stored \in {undefined, Str(<<>>)}) =>
              error = "This question is required."
  /\ (q.type = "number" /\ last = "setAnswer") =>
        stored = Str(<<>>) \/ stored.t = "number"
  /\ numberOnChange(<<>>) = Str(<<>>)
  /\ \A n \in (0 - MaxNum)..MaxNum : numberOnChange(Numeral(n)) = Num(n)

\* next() was let through on a required number question that stores 0
C14_Witness ==
  /\ q.type = "number" /\ q.required
  /\ stored = Num(0)
  /\ last = "next" /\ showPreview /\ error = null

\* C15: canProceed is true for every question that is not required,
\* whatever is stored, for all kinds; for a required text, long-text or
\* single-choice question storing a string it is true iff the string has a
\* character that is not white space; for a required multi-choice question
\* storing a list it is true iff the list is not empty.
C15_CanProceed ==
  /\ ~q.required => canProceed(q)
  /\ (q.required /\ q.type \in {"text", "textarea", "radio"} /\ stored.t = "string") =>
        (canProceed(q) <=> \E k \in 1..Len(stored.s) : stored.s[k] \notin WhiteSpace)
  /\ (q.required /\ q.type = "checkbox" /\ stored.t = "array") =>
        (canProceed(q) <=> stored.a # <<>>)
  /\ (last = "next" /\ ~canProceed(q)) => error = "This question is required."
  /\ (last = "next" /\ canProceed(q)) => error = null

\* next() was refused on a required text question that stores white space
C15_Witness ==
  /\ q.type = "text" /\ q.required
  /\ stored.t = "string" /\ Len(stored.s) = 2
  /\ last = "next" /\ error = "This question is required."

Elems(a) == {a[k] : k \in 1..Len(a)}
NoDuplicates(a) == \A j, k \in 1..Len(a) : a[j] = a[k] => j = k

\* C17: for a multi-choice question, whatever list is stored (with or
\* without duplicates) and whichever option is toggled: the list emitted
\* holds the option iff the stored list did not, agrees with the stored
\* list on every other option, and has no duplicate; toggling the same
\* option again gives a list with the elements of the stored list.
C17_Toggle ==
  (q.type = "checkbox" /\ stored.t = "array") =>
    /\ \A k \in 1..Len(q.options) :
          LET opt == q.options[k]
              once == toggle(stored, opt)
              twice == toggle(once, opt)
          IN /\ once.t = "array" /\ twice.t = "array"
             /\ (opt \in Elems(once.a)) <=> (opt \notin Elems(stored.a))
             /\ Elems(once.a) \ {opt} = Elems(stored.a) \ {opt}
             /\ NoDuplicates(once.a)
             /\ Elems(twice.a) = Elems(stored.a)
             /\ NoDuplicates(twice.a)
    /\ last = "setAnswer" => NoDuplicates(stored.a)

\* a toggle has produced a list of two options
C17_Witness ==
  /\ q.type = "checkbox"
  /\ last = "setAnswer"
  /\ stored.t = "array" /\ Len(stored.a) = 2

\* C16, as claimed: for all total >= 1 and index in [0, total),
\* progress(index, total) does not decrease with index and equals 100
\* exactly when index = total - 1.  (Stated so that it fails only where
\* every value the rounding may give contradicts it.)
C16_HundredOnlyAtLast ==
  /\ index < total - 1 =>
        \E p \in progress : \E p2 \in calcProgress(index + 1, total) : p <= p2
  /\ index = total - 1 => 100 \in progress
  /\ index < total - 1 => \E p \in progress : p # 100

\* C16, amended: for all total >= 1 and index in [0, total),
\* progress(index, total) does not decrease with index and equals 100 at
\* index = total - 1; it is below 100 at every other index provided
\* total < 200 (from total = 201 on, index = total - 2 rounds to 100 too).
C16_Progress ==
  /\ index < total - 1 =>
        \A p \in progress : \A p2 \in calcProgress(index + 1, total) : p <= p2
  /\ index = total - 1 => progress = {100}
  /\ (index < total - 1 /\ total < 200) => \A p \in progress : p < 100
  /\ \A p \in progress : p \in 0..100

\* Next has reached the last question of a survey of 199, and the progress
\* of the question before it was 99
C16_Witness ==
  /\ last = "next" /\ ~showPreview
  /\ total = 199 /\ index = total - 1
  /\ progress = {100}
  /\ calcProgress(index - 1, total) = {99}

\* request c was accepted: its handler has replied { ok: true, data: row }
accepted(c) ==
  /\ c \in 1..Len(requests)
  /\ requests[c].route = "submit"
  /\ requests[c].reply.kind = "saved"

\* C18: the table responses is append-only.  No step of the service
\* (submit, list responses, get survey) changes or removes a row that is
\* there; the insert of a submission appends exactly one row, whose id no
\* existing row has and which holds the request's surveyId and its answers;
\* an accepted submission has exactly that one row, and two accepted
\* submissions, however their steps interleave, have two different rows.
C18_AppendOnly ==
  /\ [][/\ Len(responses') \in {Len(responses), Len(responses) + 1}
        /\ SubSeq(responses', 1, Len(responses)) = responses]_vars
  /\ [][\A c \in 1..MaxRequests :
          dbRunResolves(c) =>
            /\ Len(responses') = Len(responses) + 1
            /\ LET row == responses'[Len(responses')]
               IN /\ row.id \notin rowIds
                  /\ row.id = requests'[c].lastID
                  /\ row.survey_id = requests[c].body.surveyId
                  /\ parse(row.answers) = requests[c].body.answers]_vars
  /\ [](\A c \in 1..MaxRequests :
          accepted(c) =>
            /\ Cardinality({k \in 1..Len(responses) :
                              responses[k].id = requests[c].lastID}) = 1
            /\ \A k \in 1..Len(responses) :
                 responses[k].id = requests[c].lastID =>
                   /\ responses[k].survey_id = requests[c].body.surveyId
                   /\ parse(responses[k].answers) = requests[c].body.answers
                   /\ requests[c].reply.data = <<rowParsed(responses[k])>>)
  /\ [](\A c, d \in 1..MaxRequests :
          accepted(c) /\ accepted(d) /\ c # d =>
            requests[c].lastID # requests[d].lastID)

\* two submissions were in progress together (the second's insert ran
\* first), both were accepted and the table holds their two rows
C18_Witness ==
  /\ accepted(1) /\ accepted(2)
  /\ requests[1].lastID = 2 /\ requests[2].lastID = 1
  /\ requests[1].body.answers # requests[2].body.answers
  /\ Len(responses) = 2

\* body b lacks surveyId (absent or empty) or its answers are undefined
lacking(b) == b.surveyId \in {undefined, Str(<<>>)} \/ b.answers = undefined

\* C20: POST /api/submit with a body that lacks surveyId (absent or empty)
\* or whose answers are undefined is answered at once with status 400 and
\* an error message and leaves the table as it was; its handler never
\* reaches the insert, and no row of the table has an empty survey_id.
C20_BadRequest ==
  /\ [][\A b \in Bodies :
          (postSubmitWith(b) /\ lacking(b)) =>
            /\ requests'[Len(requests')].at = "done"
            /\ requests'[Len(requests')].reply.status = 400
            /\ requests'[Len(requests')].reply.kind = "error"
            /\ requests'[Len(requests')].reply.error # ""
            /\ responses' = responses
            /\ sqlite_sequence' = sqlite_sequence]_vars
  /\ [](\A c \in 1..Len(requests) :
          (requests[c].route = "submit" /\ lacking(requests[c].body)) =>
            /\ requests[c].at = "done"
            /\ requests[c].reply.status = 400
            /\ requests[c].lastID = 0)
  /\ [](\A k \in 1..Len(responses) : ~falsy(responses[k].survey_id))

\* a request with an empty surveyId and answers present was refused after
\* another submission had been stored; the table still holds that one row
C20_Witness ==
  /\ Len(requests) = 2
  /\ accepted(1)
  /\ requests[2].route = "submit"
  /\ requests[2].body.surveyId = Str(<<>>)
  /\ requests[2].body.answers # undefined
  /\ requests[2].reply.status = 400
  /\ Len(responses) = 1

\* an event handler of the wizard runs (a click or an input of the user)
userOperation ==
  \/ changeAnswer \/ handleNext \/ clickPrev \/ requestReview \/ goToQuestion
  \/ footerJump \/ backToQuestions \/ editLast \/ handleSubmit

\* C19: no handler of the wizard takes a request out of flight (a handler
\* leaves every request in flight there, handleSubmit may add one); with a
\* gateway that answers, every request in flight is eventually answered,
\* whatever the user does: a body cannot stay in flight for ever unless
\* requests with that body are answered again and again, so that each of
\* them, the oldest first, gets its answer; and an answer that is a failure
\* sets error to the failure's message.
C19_InFlightCompletes ==
  /\ [](BagToSet(inflight) \subseteq SentBodies)
  /\ [][userOperation =>
          \A r \in SentBodies : CopiesIn(r, inflight') >= CopiesIn(r, inflight)]_vars
  /\ \A r \in SentBodies : <>[]BagIn(r, inflight) => []<><<settles(r)>>_vars
  /\ [][\A o \in Failures :
          gatewayRespondsWith(o) =>
            error' = IF o.kind = "notOk" /\ o.msg = "" THEN "Submit failed" ELSE o.msg]_vars

\* a request was sent from the review, the user went back to the questions
\* while it was in flight, and then it failed: the message is set
C19_Witness ==
  /\ Len(questions) = 2 /\ questions[1].type = "radio"
  /\ last = "gatewayFailure"
  /\ inflight = EmptyBag
  /\ ~showPreview
  /\ error = "Failed to fetch"

\* Boolean(v), the predicate of filter(Boolean)
Boolean(v) == ~falsy(v)

\* Object.values(answers).filter(Boolean).length, the count the review shows
answeredCount == Cardinality({k \in DOMAIN answers : Boolean(answers[k])})

\* a stored answer that is not empty: a string with a character, a number
\* (0 too), a list with an option
nonEmpty(v) ==
  \/ v.t = "string" /\ v.s # <<>>
  \/ v.t = "number"
  \/ v.t = "array" /\ v.a # <<>>

\* C21: in the review the count shown as "answered" is the number of
\* questions whose stored answer is not empty, and it is 0 when the store is
\* the initial one.
C21_AnsweredCount ==
  showPreview =>
    /\ answeredCount =
         Cardinality({i \in 1..total : nonEmpty(valueOf(questions[i].id))})
    /\ answers = InitialAnswers(questions) => answeredCount = 0

=============================================================================
